---- MODULE Spec2Model ----
(***************************************************************************)
(* Semi-gradient Q-learning with linear function approximation             *)
(* (q_learn_mountain_car.py): the Solver, modify_reward, run_episode and   *)
(* the training loop of __main__.                                          *)
(*                                                                         *)
(* Real numbers are fixed-point integers: a value x of the solver (a       *)
(* weight, a feature, a reward, a Q value, a rate) is the integer          *)
(* x * Scale.  The environment's positions and velocities are integers in  *)
(* units of 1/EnvScale.  Products and quotients round toward zero.         *)
(***************************************************************************)
EXTENDS Integers, Sequences, FiniteSets, TLC

\* ------------------------------------------------------------ arithmetic
Scale == 1000
EnvScale == 10000

Abs(x) == IF x < 0 THEN -x ELSE x
Max2(x, y) == IF x >= y THEN x ELSE y
Min2(x, y) == IF x <= y THEN x ELSE y
\* x / d rounded toward zero
TruncDiv(x, d) == IF x >= 0 THEN x \div d ELSE -((-x) \div d)
\* fixed-point product of two solver numbers
FMul(x, y) == TruncDiv(x * y, Scale)

\* the sum of s[lo..hi], by halving
\* a function on 1..n as the sequence of its values
Vec(f) == f \o <<>>

RECURSIVE SumRange(_, _, _)
SumRange(s, lo, hi) ==
    IF lo > hi THEN 0
    ELSE IF lo = hi THEN s[lo]
    ELSE LET mid == (lo + hi) \div 2
         IN  SumRange(s, lo, mid) + SumRange(s, mid + 1, hi)
SumSeq(s) == SumRange(s, 1, Len(s))

\* ------------------------------------------------------------ bounds
\* seeds 0..MaxSeed of the random source
MaxSeed == 2
\* max_episodes of __main__ (100000 in the source)
max_episodes == 20
\* cap on the step counter of an episode whose budget can never be hit
StepCap == 6
\* largest max_steps argument of the single-episode specification
MaxStepsArg == 4
\* number of calls of the pure-function specification
MaxCalls == 2

\* ------------------------------------------------------------ np.random
\* the seeded generator: a deterministic sequence of draws in 0..RngM-1
RngM == 65537
NextRng(r) == (75 * r + 373) % RngM
RECURSIVE RngAfter(_, _)
RngAfter(r, n) == IF n = 0 THEN r ELSE RngAfter(NextRng(r), n - 1)
\* np.random.uniform(lo, hi) on the draw r: lo + (hi - lo) * u, u = r / RngM
uniform(r, lo, hi) == lo + ((hi - lo) * r) \div RngM
\* np.random.choice(n) on the draw r
choice(r, n) == (r * n) \div RngM

\* ------------------------------------------------------------ environment
\* MountainCarWithResetEnv (interface of spec section 6), a deterministic
\* car on a flat track; a state is <<position, velocity>>.
min_position == -12000
max_position == 6000
goal_position == 5000
max_speed == 700
force == 20
number_of_actions == 3
Actions == 0 .. (number_of_actions - 1)

Clamp(x, lo, hi) == Max2(lo, Min2(hi, x))

\* env.reset_specific(position, velocity) -> state
reset_specific(position, velocity) == <<position, velocity>>

\* env.step(action) from state s -> (next_state, reward, done)
env_step(s, a) ==
    LET v1 == Clamp(s[2] + (a - 1) * force, -max_speed, max_speed)
        p1 == Clamp(s[1] + v1, min_position, max_position)
        v2 == IF p1 = min_position /\ v1 < 0 THEN 0 ELSE v1
        d  == p1 >= goal_position
    IN  [next_state |-> <<p1, v2>>,
         reward |-> IF d THEN Scale ELSE 0,
         done |-> d]

\* ------------------------------------------------------------ features
\* DataTransformer.transform_states with the statistics of Solver.__init__
state_mean == <<-3003, 1>>
state_std == <<5198, 402>>
_normalize_state(s) ==
    Vec([d \in 1..2 |-> TruncDiv((s[d] - state_mean[d]) * Scale, state_std[d])])

\* RadialBasisFunctionExtractor: a grid of kernels, kernels_per_dim[d]
\* centres per dimension; a triangular kernel stands for the Gaussian one.
number_of_kernels_per_dim == <<2, 2>>
number_of_features == number_of_kernels_per_dim[1] * number_of_kernels_per_dim[2]
KernelCentre(i) == IF i = 1 THEN -Scale ELSE Scale
Kernel(x, c) == Max2(0, Scale - TruncDiv(Abs(x - c), 2))
encode_states_with_radial_basis_functions(ns) ==
    Vec([k \in 1..number_of_features |->
        LET i == ((k - 1) \div number_of_kernels_per_dim[2]) + 1
            j == ((k - 1) % number_of_kernels_per_dim[2]) + 1
        IN  FMul(Kernel(ns[1], KernelCentre(i)), Kernel(ns[2], KernelCentre(j)))])

\* ------------------------------------------------------------ Solver
gamma == 999
learning_rate == 50

\* Solver.get_features
get_features(state) ==
    encode_states_with_radial_basis_functions(_normalize_state(state))

\* np.dot of two vectors of the same length
RECURSIVE DotFrom(_, _, _)
DotFrom(x, y, i) ==
    IF i > Len(x) THEN 0 ELSE FMul(x[i], y[i]) + DotFrom(x, y, i + 1)
np_dot(x, y) == DotFrom(x, y, 1)

\* Solver.get_q_val: theta[action*F : (1+action)*F] . features
get_q_val(theta, features, action) ==
    LET theta_ == SubSeq(theta, action * number_of_features + 1,
                         (1 + action) * number_of_features)
    IN  np_dot(features, theta_)

\* Solver.get_all_q_vals: all_vals[a] is element a + 1 of the sequence
get_all_q_vals(theta, features) ==
    Vec([k \in 1..number_of_actions |-> get_q_val(theta, features, k - 1)])

\* np.argmax: scan from the left, keep the first maximum; the index is 0-based
RECURSIVE ArgmaxScan(_, _, _)
ArgmaxScan(vals, i, best) ==
    IF i > Len(vals) THEN best
    ELSE ArgmaxScan(vals, i + 1, IF vals[i] > vals[best] THEN i ELSE best)
\* np.argmax keeping the last maximum instead of the first
RECURSIVE ArgmaxScanLast(_, _, _)
ArgmaxScanLast(vals, i, best) ==
    IF i > Len(vals) THEN best
    ELSE ArgmaxScanLast(vals, i + 1, IF vals[i] >= vals[best] THEN i ELSE best)
np_argmax_last(vals) == ArgmaxScanLast(vals, 2, 1) - 1

np_argmax(vals) == ArgmaxScan(vals, 2, 1) - 1

\* Solver.get_max_action
get_max_action(theta, state) ==
    LET sparse_features == get_features(state)
        q_vals == get_all_q_vals(theta, sparse_features)
    IN  np_argmax(q_vals)

\* the state features copied into every block, not only the action's
get_state_action_features_dense(state, action) ==
    LET state_features == get_features(state)
        n == Len(state_features)
    IN  Vec([k \in 1..(n * number_of_actions) |-> state_features[((k - 1) % n) + 1]])

\* Solver.get_state_action_features
get_state_action_features(state, action) ==
    LET state_features == get_features(state)
        n == Len(state_features)
    IN  Vec([k \in 1..(n * number_of_actions) |->
            IF k > action * n /\ k <= (1 + action) * n
            THEN state_features[k - action * n] ELSE 0])

\* update_theta bootstrapping from the value of the taken action at the next
\* state, not from the greedy one
update_theta_same_action(theta, state, action, reward, next_state, done) ==
    LET alpha == learning_rate
        phi_s == get_features(state)
        phi_s_prime == get_features(next_state)
        Q_s_a == get_q_val(theta, phi_s, action)
        phi_s_a == get_state_action_features(state, action)
        Q_s_a_estimated ==
            IF done THEN reward
            ELSE reward + FMul(gamma, get_q_val(theta, phi_s_prime, action))
        bellman_error == Q_s_a_estimated - Q_s_a
        gradient == phi_s_a
    IN  [theta |-> Vec([k \in 1..Len(theta) |->
                       theta[k] + FMul(FMul(alpha, bellman_error), gradient[k])]),
         bellman_error |-> bellman_error]

\* update_theta stepping against the TD error
update_theta_descent(theta, state, action, reward, next_state, done) ==
    LET alpha == learning_rate
        phi_s == get_features(state)
        phi_s_prime == get_features(next_state)
        Q_s_a == get_q_val(theta, phi_s, action)
        phi_s_a == get_state_action_features(state, action)
        Q_s_a_estimated ==
            IF done THEN reward
            ELSE LET a_prime == get_max_action(theta, next_state)
                 IN  reward + FMul(gamma, get_q_val(theta, phi_s_prime, a_prime))
        bellman_error == Q_s_a_estimated - Q_s_a
        gradient == phi_s_a
    IN  [theta |-> Vec([k \in 1..Len(theta) |->
                       theta[k] - FMul(FMul(alpha, bellman_error), gradient[k])]),
         bellman_error |-> bellman_error]

\* Solver.update_theta: the new weights and the returned bellman error
update_theta(theta, state, action, reward, next_state, done) ==
    LET alpha == learning_rate
        phi_s == get_features(state)
        phi_s_prime == get_features(next_state)
        Q_s_a == get_q_val(theta, phi_s, action)
        phi_s_a == get_state_action_features(state, action)
        Q_s_a_estimated ==
            IF done THEN reward
            ELSE LET a_prime == get_max_action(theta, next_state)
                 IN  reward + FMul(gamma, get_q_val(theta, phi_s_prime, a_prime))
        bellman_error == Q_s_a_estimated - Q_s_a
        gradient == phi_s_a
    IN  [theta |-> Vec([k \in 1..Len(theta) |->
                       theta[k] + FMul(FMul(alpha, bellman_error), gradient[k])]),
         bellman_error |-> bellman_error]

\* modify_reward testing for zero before the subtraction
modify_reward_test_first(reward) ==
    IF reward = 0 THEN 100 * Scale ELSE reward - Scale

\* modify_reward
modify_reward(reward) ==
    LET r == reward - Scale
    IN  IF r = 0 THEN 100 * Scale ELSE r

\* np.mean of a list: nan for the empty list
np_mean(xs) ==
    IF Len(xs) = 0 THEN [nan |-> TRUE, val |-> 0]
    ELSE [nan |-> FALSE, val |-> TruncDiv(SumSeq(xs), Len(xs))]

\* ------------------------------------------------------------ state
VARIABLES
    \* Solver
    theta,          \* self.theta, a sequence of A * F weights
    n_updates,      \* number of update_theta calls so far
    \* np.random
    rng,
    \* environment
    env_state,      \* the car's <<position, velocity>>
    env_steps,      \* env.step calls since the last reset_specific
    env_done,       \* env.step has returned done since the last reset_specific
    env_resets,     \* reset_specific calls so far
    \* run_episode: parameters and locals
    is_train, epsilon, max_steps, render,
    episode_gain, deltas, state, step,
    action, explored, next_state, reward1, reward, done,
    \* what the calls of run_episode did: the start state and the actions of
    \* the current call, and the evaluation episodes that have returned since
    \* the weights last changed
    start_state, actions, episodes,
    \* run_episode calls so far, by kind
    calls,
    \* __main__
    pc, caller, ret,
    episode_index, epsilon_current,
    reward_for_plot, SR_for_plot, initial_state_value_for_plot,
    avg_bellman_err_for_plot,
    test_gains, mean_test_gain, loop_exit, saved,
    \* the last call of the pure-function specification
    call

solver_vars == <<theta, n_updates>>
env_vars == <<env_state, env_steps, env_done, env_resets>>
params == <<is_train, epsilon, max_steps, render>>
locals == <<episode_gain, deltas, state, step,
            action, explored, next_state, reward1, reward, done>>
trace_vars == <<start_state, actions, episodes>>
frame_vars == <<params, locals, trace_vars>>
main_vars == <<episode_index, epsilon_current, reward_for_plot, SR_for_plot,
               initial_state_value_for_plot, avg_bellman_err_for_plot,
               test_gains, mean_test_gain, loop_exit, saved>>
vars == <<solver_vars, rng, env_vars, frame_vars, calls, pc, caller, ret,
          main_vars, call>>

\* epsilon=None
None == <<>>
Some(x) == <<x>>

\* ------------------------------------------------------------ construction
Seeds == 0 .. MaxSeed

\* Solver.__init__: theta = np.random.uniform(-0.001, 0, size=A * F)
SolverInitTheta(seed) ==
    Vec([k \in 1..(number_of_actions * number_of_features) |->
        uniform(RngAfter(seed, k), -1, 0)])

\* __main__ hyper-parameters
epsilon_start == 100
epsilon_decrease == 1000
epsilon_min == 50
DefaultMaxSteps == 200

NoCall == [op |-> "none", n |-> 0]

\* the frame of run_episode before any call
InitFrame ==
    /\ is_train = FALSE /\ epsilon = None /\ max_steps = 0 /\ render = FALSE
    /\ episode_gain = 0 /\ deltas = <<>> /\ state = <<0, 0>> /\ step = 0
    /\ action = 0 /\ explored = FALSE /\ next_state = <<0, 0>>
    /\ reward1 = 0 /\ reward = 0 /\ done = FALSE
    /\ start_state = <<0, 0>> /\ actions = <<>> /\ episodes = <<>>

InitMain ==
    /\ episode_index = 0
    /\ epsilon_current = epsilon_start
    /\ reward_for_plot = <<>>
    /\ SR_for_plot = <<>>
    /\ initial_state_value_for_plot = <<>>
    /\ avg_bellman_err_for_plot = <<>>
    /\ test_gains = <<>>
    /\ mean_test_gain = 0
    /\ loop_exit = "none"
    /\ saved = <<>>

InitEnv ==
    /\ env_state = <<0, 0>> /\ env_steps = 0 /\ env_done = FALSE /\ env_resets = 0

\* __main__ up to the first iteration of the training loop
Init ==
    /\ \E seed \in Seeds :
          /\ theta = SolverInitTheta(seed)
          /\ rng = RngAfter(seed, number_of_actions * number_of_features)
    /\ n_updates = 0
    /\ InitEnv /\ InitFrame /\ InitMain
    /\ calls = [train |-> 0, eval |-> 0, rendered |-> 0]
    /\ pc = "loop" /\ caller = "none"
    /\ ret = [episode_gain |-> 0, mean_delta |-> np_mean(<<>>)]
    /\ call = NoCall

\* ------------------------------------------------------------ run_episode
\* lines 96-108 with the start state drawn as in training whatever the mode
RunEpisodeEntry_random_start(tr, eps, ms, rd, who) ==
    LET r1 == NextRng(rng)
        r2 == NextRng(r1)
        start_position ==
            uniform(r1, min_position, goal_position - EnvScale \div 100)
        start_velocity ==
            uniform(r2, -max_speed, max_speed)
        s0 == reset_specific(start_position, start_velocity)
    IN  /\ is_train' = tr /\ epsilon' = eps /\ max_steps' = ms /\ render' = rd
        /\ episode_gain' = 0
        /\ deltas' = <<>>
        /\ rng' = r2
        /\ env_state' = s0 /\ env_steps' = 0 /\ env_done' = FALSE
        /\ env_resets' = env_resets + 1
        /\ state' = s0
        /\ step' = 0
        /\ start_state' = s0 /\ actions' = <<>>
        /\ episodes' = IF tr THEN <<>> ELSE episodes
        /\ calls' = [calls EXCEPT !.train = @ + (IF tr THEN 1 ELSE 0),
                                  !.eval = @ + (IF tr THEN 0 ELSE 1),
                                  !.rendered = @ + (IF rd THEN 1 ELSE 0)]
        /\ explored' = FALSE
        /\ pc' = "episode" /\ caller' = who
        /\ UNCHANGED <<action, next_state, reward1, reward, done>>

\* run_episode up to its loop (lines 96-108): start state, reset, step = 0
RunEpisodeEntry(tr, eps, ms, rd, who) ==
    LET r1 == NextRng(rng)
        r2 == NextRng(r1)
        start_position ==
            IF tr THEN uniform(r1, min_position, goal_position - EnvScale \div 100)
            ELSE -(EnvScale \div 2)
        start_velocity ==
            IF tr THEN uniform(r2, -max_speed, max_speed)
            ELSE uniform(r1, -(max_speed \div 100), max_speed \div 100)
        s0 == reset_specific(start_position, start_velocity)
    IN  /\ is_train' = tr /\ epsilon' = eps /\ max_steps' = ms /\ render' = rd
        /\ episode_gain' = 0
        /\ deltas' = <<>>
        /\ rng' = IF tr THEN r2 ELSE r1
        /\ env_state' = s0 /\ env_steps' = 0 /\ env_done' = FALSE
        /\ env_resets' = env_resets + 1
        /\ state' = s0
        /\ step' = 0
        /\ start_state' = s0 /\ actions' = <<>>
        /\ episodes' = IF tr THEN <<>> ELSE episodes
        /\ calls' = [calls EXCEPT !.train = @ + (IF tr THEN 1 ELSE 0),
                                  !.eval = @ + (IF tr THEN 0 ELSE 1),
                                  !.rendered = @ + (IF rd THEN 1 ELSE 0)]
        /\ explored' = FALSE
        /\ pc' = "episode" /\ caller' = who
        /\ UNCHANGED <<action, next_state, reward1, reward, done>>

\* lines 121-122 with the weights updated in evaluation mode too
LearnStep_always(train, th, ds, s, a, r, s2, dn) ==
    LET upd == update_theta(th, s, a, r, s2, dn)
    IN  [theta |-> upd.theta, deltas |-> IF train THEN Append(ds, upd.bellman_error) ELSE ds,
         updates |-> 1]

\* lines 121-122 with the step budget's end passed to the update as terminal
LearnStep_budget_terminal(train, th, ds, s, a, r, s2, dn) ==
    IF train
    THEN LET upd == update_theta(th, s, a, r, s2, dn \/ step + 1 = max_steps)
         IN  [theta |-> upd.theta, deltas |-> Append(ds, upd.bellman_error),
              updates |-> 1]
    ELSE [theta |-> th, deltas |-> ds, updates |-> 0]

\* lines 121-122: if is_train: deltas.append(solver.update_theta(...))
LearnStep(train, th, ds, s, a, r, s2, dn) ==
    IF train
    THEN LET upd == update_theta(th, s, a, r, s2, dn)
         IN  [theta |-> upd.theta, deltas |-> Append(ds, upd.bellman_error),
              updates |-> 1]
    ELSE [theta |-> th, deltas |-> ds, updates |-> 0]

\* line 110 with the floor of the training schedule applied to the rate
Explores_floor(eps, draw) == eps # None /\ draw < Max2(eps[1], epsilon_min)

\* line 110: epsilon is not None and np.random.uniform() < epsilon
Explores(eps, draw) == eps # None /\ draw < eps[1]

\* one iteration of the loop of run_episode (lines 109-125)
LoopIteration ==
    /\ pc = "episode"
    /\ step < Max2(max_steps, StepCap)
    /\ LET r1 == NextRng(rng)
           r2 == NextRng(r1)
           drawn == epsilon # None
           explore == Explores(epsilon, uniform(r1, 0, Scale))
           a == IF explore THEN choice(r2, number_of_actions)
                ELSE get_max_action(theta, state)
           out == env_step(env_state, a)
           rew == modify_reward(out.reward)
           learnt == LearnStep(is_train, theta, deltas, state, a, rew,
                               out.next_state, out.done)
           gain == episode_gain + rew
           ds == learnt.deltas
       IN  /\ rng' = IF ~drawn THEN rng ELSE IF explore THEN r2 ELSE r1
           /\ action' = a /\ explored' = explore
           /\ env_state' = out.next_state
           /\ env_steps' = env_steps + 1
           /\ env_done' = (env_done \/ out.done)
           /\ next_state' = out.next_state
           /\ reward1' = out.reward
           /\ done' = out.done
           /\ reward' = rew
           /\ step' = step + 1
           /\ episode_gain' = gain
           /\ deltas' = ds
           /\ theta' = learnt.theta
           /\ n_updates' = n_updates + learnt.updates
           /\ start_state' = start_state
           /\ actions' = Append(actions, a)
           /\ IF out.done \/ step + 1 = max_steps
              THEN /\ pc' = "return"
                   /\ ret' = [episode_gain |-> gain, mean_delta |-> np_mean(ds)]
                   /\ state' = state
                   /\ episodes' =
                          IF is_train THEN episodes
                          ELSE Append(episodes,
                                      [theta |-> theta, epsilon |-> epsilon,
                                       start_state |-> start_state,
                                       actions |-> Append(actions, a),
                                       episode_gain |-> gain])
              ELSE /\ pc' = "episode"
                   /\ ret' = ret
                   /\ state' = out.next_state
                   /\ episodes' = episodes
    /\ UNCHANGED <<env_resets, params, calls, caller, main_vars, call>>

\* ------------------------------------------------------------ __main__
\* moving_average(x, w) = np.convolve(x, np.ones(w), 'valid') / w
moving_average(x, w) ==
    LET n == Len(x)
        WindowSum(k) == IF n >= w THEN SumRange(x, k, k + w - 1) ELSE SumSeq(x)
    IN  Vec([k \in 1..(Max2(n, w) - Min2(n, w) + 1) |-> TruncDiv(WindowSum(k), w)])

\* test_gains.count(v)
Count(xs, v) == Cardinality({i \in 1..Len(xs) : xs[i] = v})

RangeSeq(n) == Vec([k \in 1..n |-> k - 1])

\* the failure return of lines 14 and 177
FailureReturn == -200 * Scale

\* lines 176-179: mean gain and success rate of the training loop's block
block_evaluation(gains) ==
    LET failures == Count(gains, FailureReturn)
        successes == 10 - failures
        SR == (successes * Scale) \div 10
    IN  [mean_test_gain |-> np_mean(gains).val, SR |-> SR]

\* lines 14-17 of evaluate_criterion, on the gains line 13 collected:
\* test_gains is a list, so test_gains != -200 is True and test_gains[True]
\* is the element at index 1
evaluate_criterion(gains) ==
    LET num_of_states == 10
        successes == gains[2]
        SR == TruncDiv(successes, num_of_states)
    IN  [mean_test_gain |-> np_mean(gains).val, SR |-> SR]

\* the exploration rate decayed toward the wrong side of the floor
DecayEpsilon_min(e) == Min2(FMul(e, epsilon_decrease), epsilon_min)

\* lines 160-161: epsilon_current *= epsilon_decrease, then max with epsilon_min
DecayEpsilon(e) == Max2(FMul(e, epsilon_decrease), epsilon_min)

\* an evaluation block after every tenth episode, counted from 10
IsEvalEpisode_tenth(idx) == idx % 10 = 0

\* line 174: if episode_index % 10 == 9
IsEvalEpisode(idx) == idx % 10 = 9

\* for episode_index in range(1, max_episodes + 1): the call of line 157
TrainCall ==
    /\ pc = "loop"
    /\ episode_index < max_episodes
    /\ episode_index' = episode_index + 1
    /\ RunEpisodeEntry(TRUE, Some(epsilon_current), DefaultMaxSteps, FALSE, "train")
    /\ UNCHANGED <<solver_vars, ret, epsilon_current, reward_for_plot, SR_for_plot,
                   initial_state_value_for_plot, avg_bellman_err_for_plot,
                   test_gains, mean_test_gain, loop_exit, saved, call>>

\* the exhausted range leaves the loop the way the break does
LoopExhausted_as_break ==
    /\ pc = "loop"
    /\ episode_index >= max_episodes
    /\ loop_exit' = "break"
    /\ pc' = "save"
    /\ UNCHANGED <<solver_vars, rng, env_vars, frame_vars, calls, caller, ret,
                   episode_index, epsilon_current, reward_for_plot, SR_for_plot,
                   initial_state_value_for_plot, avg_bellman_err_for_plot,
                   test_gains, mean_test_gain, saved, call>>

\* the range of the training loop is exhausted
LoopExhausted ==
    /\ pc = "loop"
    /\ episode_index >= max_episodes
    /\ loop_exit' = "exhausted"
    /\ pc' = "save"
    /\ UNCHANGED <<solver_vars, rng, env_vars, frame_vars, calls, caller, ret,
                   episode_index, epsilon_current, reward_for_plot, SR_for_plot,
                   initial_state_value_for_plot, avg_bellman_err_for_plot,
                   test_gains, mean_test_gain, saved, call>>

\* lines 157-174 with the reference-state value recorded only before a block
TrainReturn_value_in_block ==
    /\ pc = "return" /\ caller = "train"
    /\ epsilon_current' = DecayEpsilon(epsilon_current)
    /\ reward_for_plot' = Append(reward_for_plot, ret.episode_gain)
    /\ LET s0 == <<-(EnvScale \div 2), 0>>
           phi_s0 == get_features(s0)
           s0_greedy_action == get_max_action(theta, s0)
       IN  initial_state_value_for_plot' =
               IF IsEvalEpisode(episode_index)
               THEN Append(initial_state_value_for_plot,
                           get_q_val(theta, phi_s0, s0_greedy_action))
               ELSE initial_state_value_for_plot
    /\ avg_bellman_err_for_plot' = Append(avg_bellman_err_for_plot, ret.mean_delta.val)
    /\ IF IsEvalEpisode(episode_index)
       THEN pc' = "eval" /\ test_gains' = <<>>
       ELSE pc' = "loop" /\ test_gains' = test_gains
    /\ UNCHANGED <<solver_vars, rng, env_vars, frame_vars, calls, caller, ret,
                   episode_index, SR_for_plot, mean_test_gain, loop_exit, saved, call>>

\* lines 157-174: the training episode has returned
TrainReturn ==
    /\ pc = "return" /\ caller = "train"
    /\ epsilon_current' = DecayEpsilon(epsilon_current)
    /\ reward_for_plot' = Append(reward_for_plot, ret.episode_gain)
    /\ LET s0 == <<-(EnvScale \div 2), 0>>
           phi_s0 == get_features(s0)
           s0_greedy_action == get_max_action(theta, s0)
       IN  initial_state_value_for_plot' =
               Append(initial_state_value_for_plot,
                      get_q_val(theta, phi_s0, s0_greedy_action))
    /\ avg_bellman_err_for_plot' = Append(avg_bellman_err_for_plot, ret.mean_delta.val)
    /\ IF IsEvalEpisode(episode_index)
       THEN pc' = "eval" /\ test_gains' = <<>>
       ELSE pc' = "loop" /\ test_gains' = test_gains
    /\ UNCHANGED <<solver_vars, rng, env_vars, frame_vars, calls, caller, ret,
                   episode_index, SR_for_plot, mean_test_gain, loop_exit, saved, call>>

\* line 175 with the training exploration rate passed to the evaluation episode
EvalCall_exploring ==
    /\ pc = "eval"
    /\ Len(test_gains) < 10
    /\ RunEpisodeEntry(FALSE, Some(epsilon_current), DefaultMaxSteps, FALSE, "eval")
    /\ UNCHANGED <<solver_vars, ret, main_vars, call>>

\* line 175 with a step budget of half the failure return
EvalCall_short_budget ==
    /\ pc = "eval"
    /\ Len(test_gains) < 10
    /\ RunEpisodeEntry(FALSE, Some(0), DefaultMaxSteps \div 2, FALSE, "eval")
    /\ UNCHANGED <<solver_vars, ret, main_vars, call>>

\* line 175: one run_episode call of the evaluation block
EvalCall ==
    /\ pc = "eval"
    /\ Len(test_gains) < 10
    /\ RunEpisodeEntry(FALSE, Some(0), DefaultMaxSteps, FALSE, "eval")
    /\ UNCHANGED <<solver_vars, ret, main_vars, call>>

\* line 175: the evaluation episode has returned, its gain joins test_gains
EvalReturn ==
    /\ pc = "return" /\ caller = "eval"
    /\ test_gains' = Append(test_gains, ret.episode_gain)
    /\ pc' = "eval"
    /\ UNCHANGED <<solver_vars, rng, env_vars, frame_vars, calls, caller, ret,
                   episode_index, epsilon_current, reward_for_plot, SR_for_plot,
                   initial_state_value_for_plot, avg_bellman_err_for_plot,
                   mean_test_gain, loop_exit, saved, call>>

\* lines 176-181: mean gain and success rate of the block
BlockEnd ==
    /\ pc = "eval"
    /\ Len(test_gains) = 10
    /\ mean_test_gain' = block_evaluation(test_gains).mean_test_gain
    /\ SR_for_plot' = Append(SR_for_plot, block_evaluation(test_gains).SR)
    /\ pc' = "threshold"
    /\ UNCHANGED <<solver_vars, rng, env_vars, frame_vars, calls, caller, ret,
                   episode_index, epsilon_current, reward_for_plot,
                   initial_state_value_for_plot, avg_bellman_err_for_plot,
                   test_gains, loop_exit, saved, call>>

\* lines 182-184: solved, the rendered episode before the break
SolvedCall ==
    /\ pc = "threshold"
    /\ mean_test_gain >= -75 * Scale
    /\ RunEpisodeEntry(FALSE, None, DefaultMaxSteps, TRUE, "solved")
    /\ UNCHANGED <<solver_vars, ret, main_vars, call>>

\* line 182: not solved, on to the next training episode
NotSolved ==
    /\ pc = "threshold"
    /\ ~(mean_test_gain >= -75 * Scale)
    /\ pc' = "loop"
    /\ UNCHANGED <<solver_vars, rng, env_vars, frame_vars, calls, caller, ret,
                   main_vars, call>>

\* line 185 without the break: the training loop goes on
SolvedReturn_no_break ==
    /\ pc = "return" /\ caller = "solved"
    /\ pc' = "loop"
    /\ UNCHANGED <<solver_vars, rng, env_vars, frame_vars, calls, caller, ret,
                   main_vars, call>>

\* line 185: break
SolvedReturn ==
    /\ pc = "return" /\ caller = "solved"
    /\ loop_exit' = "break"
    /\ pc' = "save"
    /\ UNCHANGED <<solver_vars, rng, env_vars, frame_vars, calls, caller, ret,
                   episode_index, epsilon_current, reward_for_plot, SR_for_plot,
                   initial_state_value_for_plot, avg_bellman_err_for_plot,
                   test_gains, mean_test_gain, saved, call>>

\* lines 187-193: np.savez of the training curves
Save ==
    /\ pc = "save"
    /\ saved' = <<[Reward |-> reward_for_plot,
                   SR |-> SR_for_plot,
                   InitStateV |-> initial_state_value_for_plot,
                   BellmanErr |-> moving_average(avg_bellman_err_for_plot, 100),
                   X1 |-> RangeSeq(Len(initial_state_value_for_plot))]>>
    /\ pc' = "final"
    /\ UNCHANGED <<solver_vars, rng, env_vars, frame_vars, calls, caller, ret,
                   episode_index, epsilon_current, reward_for_plot, SR_for_plot,
                   initial_state_value_for_plot, avg_bellman_err_for_plot,
                   test_gains, mean_test_gain, loop_exit, call>>

\* line 195: the rendered episode that ends the program
FinalCall ==
    /\ pc = "final"
    /\ RunEpisodeEntry(FALSE, None, DefaultMaxSteps, TRUE, "final")
    /\ UNCHANGED <<solver_vars, ret, main_vars, call>>

FinalReturn ==
    /\ pc = "return" /\ caller = "final"
    /\ pc' = "halt"
    /\ UNCHANGED <<solver_vars, rng, env_vars, frame_vars, calls, caller, ret,
                   main_vars, call>>

Next ==
    \/ TrainCall \/ LoopIteration \/ TrainReturn
    \/ EvalCall \/ EvalReturn \/ BlockEnd
    \/ SolvedCall \/ NotSolved \/ SolvedReturn
    \/ LoopExhausted \/ Save \/ FinalCall \/ FinalReturn

Spec == Init /\ [][Next]_vars

\* ------------------------------------------------------------ one episode
\* run_episode called once with arguments from small sets, on weights that
\* training can leave behind: every weight of block a equals w[a + 1].
BlockTheta(w) ==
    Vec([k \in 1..(number_of_actions * number_of_features) |->
            w[((k - 1) \div number_of_features) + 1]])
SolverThetas ==
    {BlockTheta(w) : w \in {<<-1, -1, -1>>, <<-1000, 500, 500>>, <<-2000, -1000, 500>>}}
EpisodeSeeds == 0 .. (2 * MaxSeed + 1)
EpsilonArgs == {None, Some(0), Some(epsilon_start), Some(Scale)}
MaxStepsArgs == (0 .. MaxStepsArg) \cup {DefaultMaxSteps}

InitEpisode ==
    /\ theta \in SolverThetas
    /\ \E seed \in EpisodeSeeds :
          rng = RngAfter(seed, number_of_actions * number_of_features)
    /\ n_updates = 0
    /\ InitEnv /\ InitFrame /\ InitMain
    /\ calls = [train |-> 0, eval |-> 0, rendered |-> 0]
    /\ pc = "call" /\ caller = "none"
    /\ ret = [episode_gain |-> 0, mean_delta |-> np_mean(<<>>)]
    /\ call = NoCall

TestCall ==
    /\ pc = "call"
    /\ \E tr \in BOOLEAN, eps \in EpsilonArgs, ms \in MaxStepsArgs :
          RunEpisodeEntry(tr, eps, ms, FALSE, "test")
    /\ UNCHANGED <<solver_vars, ret, main_vars, call>>

TestReturn ==
    /\ pc = "return" /\ caller = "test"
    /\ pc' = "halt"
    /\ UNCHANGED <<solver_vars, rng, env_vars, frame_vars, calls, caller, ret,
                   main_vars, call>>

NextEpisode == TestCall \/ LoopIteration \/ TestReturn

SpecEpisode == InitEpisode /\ [][NextEpisode]_vars

\* ------------------------------------------------------------ Solver calls
\* The Solver's methods and modify_reward applied to arguments from small
\* sets; call records the last call, its arguments and its returned value.
SolverStates == {<<-(EnvScale \div 2), 0>>, <<goal_position - EnvScale \div 100, max_speed>>}
SolverRewards == {-Scale, 100 * Scale}
RawRewards == {-Scale, 0, Scale \div 2, Scale, 2 * Scale}

InitSolver ==
    /\ theta \in SolverThetas
    /\ rng = 0
    /\ n_updates = 0
    /\ InitEnv /\ InitFrame /\ InitMain
    /\ calls = [train |-> 0, eval |-> 0, rendered |-> 0]
    /\ pc = "solver" /\ caller = "none"
    /\ ret = [episode_gain |-> 0, mean_delta |-> np_mean(<<>>)]
    /\ call = NoCall

CallUpdateTheta ==
    /\ pc = "solver"
    /\ call.n < MaxCalls
    /\ \E s \in SolverStates, a \in Actions, r \in SolverRewards,
          s2 \in SolverStates, d \in BOOLEAN :
          LET upd == update_theta(theta, s, a, r, s2, d)
          IN  /\ theta' = upd.theta
              /\ n_updates' = n_updates + 1
              /\ call' = [op |-> "update_theta", n |-> call.n + 1,
                          state |-> s, action |-> a, reward |-> r,
                          next_state |-> s2, done |-> d,
                          value |-> upd.bellman_error]
    /\ UNCHANGED <<rng, env_vars, frame_vars, calls, pc, caller, ret, main_vars>>

CallGetMaxAction ==
    /\ pc = "solver"
    /\ call.n < MaxCalls
    /\ \E s \in SolverStates :
          call' = [op |-> "get_max_action", n |-> call.n + 1, state |-> s,
                   value |-> get_max_action(theta, s)]
    /\ UNCHANGED <<solver_vars, rng, env_vars, frame_vars, calls, pc, caller, ret,
                   main_vars>>

CallModifyReward ==
    /\ pc = "solver"
    /\ call.n < MaxCalls
    /\ \E r \in RawRewards :
          call' = [op |-> "modify_reward", n |-> call.n + 1, reward |-> r,
                   value |-> modify_reward(r)]
    /\ UNCHANGED <<solver_vars, rng, env_vars, frame_vars, calls, pc, caller, ret,
                   main_vars>>

NextSolver == CallUpdateTheta \/ CallGetMaxAction \/ CallModifyReward

SpecSolver == InitSolver /\ [][NextSolver]_vars

\* ------------------------------------------------------------ evaluation
\* The two success-rate computations applied to lists of 10 returns: f of
\* them, from position r on, are the failure return, the others are v.
GainList(f, r, v) ==
    Vec([i \in 1..10 |-> IF ((i - 1 - r) % 10) < f THEN FailureReturn ELSE v])
GainLists ==
    {GainList(f, r, v) : f \in 0..10, r \in 0..9, v \in {-110 * Scale, 90 * Scale}}

CallBlockEvaluation ==
    /\ pc = "solver"
    /\ call.n < MaxCalls
    /\ \E g \in GainLists :
          call' = [op |-> "block_evaluation", n |-> call.n + 1, gains |-> g,
                   value |-> block_evaluation(g)]
    /\ UNCHANGED <<solver_vars, rng, env_vars, frame_vars, calls, pc, caller, ret,
                   main_vars>>

CallEvaluateCriterion ==
    /\ pc = "solver"
    /\ call.n < MaxCalls
    /\ \E g \in GainLists :
          call' = [op |-> "evaluate_criterion", n |-> call.n + 1, gains |-> g,
                   value |-> evaluate_criterion(g)]
    /\ UNCHANGED <<solver_vars, rng, env_vars, frame_vars, calls, pc, caller, ret,
                   main_vars>>

NextCriterion == CallBlockEvaluation \/ CallEvaluateCriterion

SpecCriterion == InitSolver /\ [][NextCriterion]_vars

\* ------------------------------------------------------------ claims
\* Q(s, a) under the weights th: the features of s times block a of th
QValue(th, s, a) ==
    LET phi == get_features(s)
    IN  SumSeq([i \in 1..number_of_features |->
                   FMul(phi[i], th[a * number_of_features + i])])
\* the largest element of a finite set of integers
MaxOf(S) == CHOOSE m \in S : \A x \in S : m >= x
IsUpdate == call'.op = "update_theta" /\ n_updates' = n_updates + 1

\* C1: update_theta returns delta = target - Q(state, action) on the weights
\* before the call; target is the reward on a terminal transition and
\* reward + gamma * max over all actions of Q(next_state, .) otherwise.
C1_TDError ==
    [][IsUpdate =>
         LET c == call'
             target == IF c.done THEN c.reward
                       ELSE c.reward
                            + FMul(gamma, MaxOf({QValue(theta, c.next_state, b) : b \in Actions}))
         IN  c.value = target - QValue(theta, c.state, c.action)]_vars

\* a non-terminal update whose taken action is not the greedy one at the next
\* state, so the max bootstrap differs from the taken action's own value
C1_Witness ==
    /\ call.op = "update_theta" /\ ~call.done /\ call.n = 1
    /\ call.action = 0
    /\ \E th \in SolverThetas :
          /\ QValue(th, call.next_state, 0) < QValue(th, call.next_state, 2)
          /\ call.value = call.reward
                          + FMul(gamma, QValue(th, call.next_state, 2))
                          - QValue(th, call.state, 0)

\* C2: update_theta changes only the block of the taken action, by
\* alpha * delta * features(state), and the vector keeps length A * F.
C2_OnlyTakenBlock ==
    [][IsUpdate =>
         LET c == call'
             F == number_of_features
             phi == get_features(c.state)
         IN  /\ Len(theta) = number_of_actions * F
             /\ Len(theta') = number_of_actions * F
             /\ \A b \in Actions : \A i \in 1..F :
                   theta'[b * F + i] =
                       IF b = c.action
                       THEN theta[b * F + i]
                            + FMul(FMul(learning_rate, c.value), phi[i])
                       ELSE theta[b * F + i]]_vars

\* two updates in a row; the second moved a weight of its block
C2_Witness ==
    /\ call.op = "update_theta" /\ n_updates = 2
    /\ Len(theta) = number_of_actions * number_of_features
    /\ FMul(learning_rate, call.value) # 0
    /\ \E i \in 1..number_of_features :
          FMul(FMul(learning_rate, call.value), get_features(call.state)[i]) # 0

\* C3: get_max_action returns an action in 0..A-1 of maximal value, the
\* lowest such index on a tie.
C3_GreedyFirstMax ==
    call.op = "get_max_action" =>
        /\ call.value \in Actions
        /\ \A b \in Actions :
              QValue(theta, call.state, b) <= QValue(theta, call.state, call.value)
        /\ \A b \in Actions :
              b < call.value =>
                  QValue(theta, call.state, b) < QValue(theta, call.state, call.value)

\* a tie between two maximal actions, resolved to the lower one, which is not
\* action 0
C3_Witness ==
    /\ call.op = "get_max_action"
    /\ call.value = 1
    /\ QValue(theta, call.state, 2) = QValue(theta, call.state, 1)
    /\ QValue(theta, call.state, 0) < QValue(theta, call.state, 1)

\* C4: modify_reward maps raw reward 1 to 100 and any other raw reward r to
\* r - 1; the shaped reward is never 0.
C4_ModifyReward ==
    call.op = "modify_reward" =>
        /\ call.reward = Scale => call.value = 100 * Scale
        /\ call.reward # Scale => call.value = call.reward - Scale
        /\ call.value # 0

C4_Witness ==
    call.op = "modify_reward" /\ call.reward = Scale /\ call.value = 100 * Scale

\* a step of the loop of run_episode
IsLoopStep == pc = "episode" /\ step' = step + 1

\* C5: for any step budget max_steps, an episode takes at most max_steps
\* environment steps and never steps the environment after a terminal signal.
C5_WithinBudget ==
    env_resets > 0 =>
        /\ env_steps <= max_steps
        /\ env_done => pc # "episode"

\* C5 for a budget of at least one step
C5_PositiveBudget ==
    (env_resets > 0 /\ max_steps >= 1) =>
        /\ env_steps <= max_steps
        /\ env_steps = step
        /\ env_done => pc # "episode"
        /\ pc \in {"return", "halt"} => (done \/ step = max_steps)

\* C6: an evaluation episode leaves the weights alone and records no TD
\* error; a training episode makes one update and records one TD error per
\* environment step, the last step included.
C6_UpdateOnlyInTraining ==
    [][/\ ~is_train' =>
             (theta' = theta /\ n_updates' = n_updates /\ deltas' = <<>>)
       /\ (IsLoopStep /\ is_train) =>
             /\ n_updates' = n_updates + 1
             /\ env_steps' = env_steps + 1
             /\ Len(deltas') = step'
             /\ env_steps' = step']_vars

\* a training episode ended by the terminal signal after several steps, the
\* last step updated and recorded like the others
C6_Witness ==
    /\ pc = "return" /\ is_train /\ done
    /\ step >= 2 /\ Len(deltas) = step /\ n_updates = step /\ env_steps = step
    /\ \E k \in 1..Len(theta) : \A th \in SolverThetas : theta[k] # th[k]

InBlock ==
    \/ pc \in {"eval", "threshold"}
    \/ (pc \in {"episode", "return"} /\ caller = "eval")
\* the episodes among 1..n whose index is 9 modulo 10
BlocksDue(n) == Cardinality({k \in 1..n : k % 10 = 9})
\* evaluation episodes of the blocks run so far
BlockEpisodes == calls.eval - calls.rendered

\* C8: an evaluation block runs after the training episodes 9, 19, 29, ...
\* and after no other; a block is 10 evaluation episodes without exploration,
\* and the weights do not change during it.
C8_EvalBlocks ==
    [][/\ InBlock => theta' = theta
       /\ InBlock' => episode_index' % 10 = 9
       /\ (InBlock' /\ pc' # "threshold") =>
             /\ Len(SR_for_plot') = BlocksDue(episode_index') - 1
             /\ BlockEpisodes' = 10 * Len(SR_for_plot') + Len(test_gains')
                                 + (IF pc' = "eval" THEN 0 ELSE 1)
       /\ pc' \in {"threshold", "loop", "save", "final", "halt"} =>
             /\ Len(SR_for_plot') = BlocksDue(episode_index')
             /\ BlockEpisodes' = 10 * Len(SR_for_plot')
       /\ pc' = "threshold" => Len(test_gains') = 10
       /\ (caller' = "eval" /\ pc' \in {"episode", "return"}) =>
             (~is_train' /\ ~explored' /\ epsilon' = Some(0))]_vars

\* the second block, after episode 19, is complete
C8_Witness ==
    /\ pc = "threshold" /\ episode_index = 19
    /\ Len(SR_for_plot) = 2 /\ Len(test_gains) = 10
    /\ calls.train = 19

Converged == caller = "solved" \/ loop_exit = "break"
ExhaustedBudget == loop_exit = "exhausted"

\* C9: the loop enters Converged exactly when a block's mean return is at
\* least -75; after that no training episode and no weight update happens;
\* otherwise max_episodes training episodes run and the loop ends in
\* ExhaustedBudget; every run ends, in exactly one of the two: the counters
\* of the run are bounded and only an ended run has no next step (an episode
\* in progress has budget left, a returned training episode is taken up by
\* the loop, every other position has a step of the loop enabled).
C9_Termination ==
    /\ [][/\ (Converged' /\ ~Converged) <=>
                (pc = "threshold" /\ SumSeq(test_gains) >= -75 * Scale * Len(test_gains))
          /\ Converged =>
                /\ Converged'
                /\ theta' = theta /\ n_updates' = n_updates
                /\ calls'.train = calls.train
          /\ ExhaustedBudget' =>
                (calls'.train = max_episodes /\ ~Converged')
          /\ pc' = "halt" => (Converged' # ExhaustedBudget')]_vars
    /\ [](/\ \/ pc = "halt"
             \/ pc = "episode" /\ step < max_steps
             \/ pc = "return" /\ caller = "train"
             \/ ENABLED (\/ TrainCall \/ LoopExhausted \/ EvalCall \/ EvalReturn
                         \/ BlockEnd \/ SolvedCall \/ NotSolved \/ SolvedReturn
                         \/ Save \/ FinalCall \/ FinalReturn)
          /\ calls.train <= max_episodes /\ calls.train = episode_index
          /\ step <= DefaultMaxSteps
          /\ Len(test_gains) <= 10)

\* a run that converged at the second block and has ended
C9_Witness ==
    /\ pc = "halt" /\ loop_exit = "break"
    /\ episode_index = 19 /\ calls.train = 19

\* C10: after each training episode the rate becomes
\* max(floor, rate * decayFactor); it stays in [floor, 1]; no step of
\* run_episode or of the Solver writes it.
C10_Epsilon ==
    [][/\ (pc = "return" /\ caller = "train") =>
             LET d == FMul(epsilon_current, epsilon_decrease)
             IN  /\ epsilon_current' >= d
                 /\ epsilon_current' >= epsilon_min
                 /\ epsilon_current' \in {d, epsilon_min}
       /\ ~(pc = "return" /\ caller = "train") => epsilon_current' = epsilon_current
       /\ epsilon_min <= epsilon_current' /\ epsilon_current' <= Scale]_vars

\* the rate after the decay of the second training episode, used by the third
C10_Witness ==
    /\ pc = "episode" /\ caller = "train" /\ episode_index = 3
    /\ epsilon = Some(epsilon_current)
    /\ epsilon_current >= epsilon_min /\ epsilon_current <= Scale
    /\ Len(reward_for_plot) = 2

\* C11: a run that reached Converged has run exactly one rendered evaluation
\* episode after it, and has persisted the bundle of training curves.
C11_OneFinalEpisode ==
    (pc = "halt" /\ loop_exit = "break") =>
        /\ calls.rendered = 1
        /\ Len(saved) = 1

\* what the program does on the path through Converged: the rendered episode
\* of line 184, the bundle, the rendered episode of line 195
C11_TwoRenderedEpisodes ==
    (pc = "halt" /\ loop_exit = "break") =>
        /\ calls.rendered = 2
        /\ Len(saved) = 1

C13_FailureIffBudget ==
    [][/\ (pc = "return" /\ caller = "eval") =>
             /\ (ret.episode_gain = FailureReturn) <=> (step = max_steps /\ ~done)
             /\ done => ret.episode_gain > FailureReturn
             /\ test_gains' = Append(test_gains, ret.episode_gain)
       /\ (pc = "eval" /\ pc' = "threshold") =>
             LET failed == {i \in 1..10 : test_gains[i] = FailureReturn}
             IN  SR_for_plot'[Len(SR_for_plot')] * 10 = (10 - Cardinality(failed)) * Scale]_vars

\* a counted block in which some episodes reached the goal within 200 steps
\* and some did not
C13_Witness ==
    /\ pc = "threshold" /\ max_steps = DefaultMaxSteps
    /\ \E i, j \in 1..10 : test_gains[i] = FailureReturn /\ test_gains[j] > FailureReturn
    /\ SR_for_plot[Len(SR_for_plot)] \in 1..(Scale - 1)

\* the returns of a list that differ from the failure return
Successes(gains) == {i \in 1..Len(gains) : gains[i] # FailureReturn}

\* C14: both success-rate computations return (number of the 10 returns that
\* differ from -200) / 10, and the mean they report is the arithmetic mean
\* of the 10 returns.
C14_SuccessRate ==
    call.op \in {"block_evaluation", "evaluate_criterion"} =>
        /\ call.value.SR * 10 = Cardinality(Successes(call.gains)) * Scale
        /\ call.value.mean_test_gain * 10 = SumSeq(call.gains)

\* C14 for the training loop's computation alone
C14_BlockSuccessRate ==
    call.op = "block_evaluation" =>
        /\ call.value.SR * 10 = Cardinality(Successes(call.gains)) * Scale
        /\ call.value.mean_test_gain * 10 = SumSeq(call.gains)

\* what evaluate_criterion returns as the success rate: a tenth of the
\* second return of the list
C14_EvaluateCriterionSecond ==
    call.op = "evaluate_criterion" =>
        /\ call.value.SR * 10 = call.gains[2]
        /\ call.value.mean_test_gain * 10 = SumSeq(call.gains)

\* C15: two evaluation episodes run with exploration rate 0 on the same
\* weights from the same start state take the same actions in the same
\* order and return the same total.
C15_Deterministic ==
    \A i, j \in 1..Len(episodes) :
        (/\ episodes[i].epsilon = Some(0) /\ episodes[j].epsilon = Some(0)
         /\ episodes[i].theta = episodes[j].theta
         /\ episodes[i].start_state = episodes[j].start_state) =>
            /\ episodes[i].actions = episodes[j].actions
            /\ episodes[i].episode_gain = episodes[j].episode_gain

\* two episodes of one evaluation block that started from the same state,
\* with the random generator in different states, and took several actions
C15_Witness ==
    \E i, j \in 1..Len(episodes) :
        /\ i < j
        /\ episodes[i].epsilon = Some(0) /\ episodes[j].epsilon = Some(0)
        /\ episodes[i].theta = episodes[j].theta
        /\ episodes[i].start_state = episodes[j].start_state
        /\ Len(episodes[i].actions) >= 2
        /\ \E k \in 1..Len(episodes[i].actions) : episodes[i].actions[k] # 0

\* the features of s times block a of th, before the product is rounded to
\* the fixed-point unit
DotExact(th, s, a) ==
    LET phi == get_features(s)
    IN  SumSeq([i \in 1..number_of_features |-> phi[i] * th[a * number_of_features + i]])

C17_TerminalFlagAlone ==
    [][(IsLoopStep /\ is_train) =>
         LET next_max == MaxOf({QValue(theta, next_state', b) : b \in Actions})
             target == IF done' THEN reward'
                       ELSE reward' + FMul(gamma, next_max)
         IN  /\ deltas'[Len(deltas')] = target - QValue(theta, state, action')
             /\ (pc' = "return" /\ ~done') => step' = max_steps]_vars

\* a training episode that returned at the end of its budget without the
\* terminal signal, from weights under which the next state's value counts
C17_Witness ==
    /\ pc = "return" /\ is_train /\ ~done
    /\ step = max_steps /\ max_steps >= 2 /\ Len(deltas) = step
    /\ \E a \in Actions : Abs(QValue(theta, next_state, a)) >= Scale \div 10

\* a step that enters run_episode
IsEntry == pc # "episode" /\ pc' = "episode"

\* C18: every call of run_episode resets the environment once, before its
\* first step, to a state short of the goal: in training a position in
\* [min_position, goal_position - 0.01] and a velocity in
\* [-max_speed, max_speed]; in evaluation the position -0.5 and a velocity in
\* [-max_speed / 100, max_speed / 100].
C18_StartState ==
    [][/\ IsEntry =>
             /\ env_resets' = env_resets + 1
             /\ step' = 0 /\ env_steps' = 0
             /\ state' = env_state' /\ start_state' = env_state'
             /\ state'[1] < goal_position
             /\ is_train' =>
                    /\ min_position <= state'[1]
                    /\ state'[1] <= goal_position - EnvScale \div 100
                    /\ -max_speed <= state'[2] /\ state'[2] <= max_speed
             /\ ~is_train' =>
                    /\ state'[1] = -(EnvScale \div 2)
                    /\ -(max_speed \div 100) <= state'[2]
                    /\ state'[2] <= max_speed \div 100
       /\ ~IsEntry => env_resets' = env_resets
       /\ env_resets' = calls'.train + calls'.eval]_vars

\* a training episode under way from a start right of the evaluation start,
\* after evaluation episodes have run
C18_Witness ==
    /\ pc = "episode" /\ is_train /\ step >= 1
    /\ start_state[1] > -(EnvScale \div 2) /\ start_state[2] < 0
    /\ env_resets = calls.train + calls.eval /\ calls.eval >= 10

\* training episodes whose bookkeeping (lines 160-171) is done
Completed ==
    calls.train - (IF caller = "train" /\ pc \in {"episode", "return"} THEN 1 ELSE 0)

\* C19 as stated: at every point of the training loop after n completed
\* training episodes each per-episode series holds n entries and the
\* success-rate series holds floor((n + 1) / 10) entries.
C19_EveryPoint ==
    /\ Len(reward_for_plot) = Completed
    /\ Len(initial_state_value_for_plot) = Completed
    /\ Len(avg_bellman_err_for_plot) = Completed
    /\ Len(SR_for_plot) = (Completed + 1) \div 10

\* C19, amended: after n completed training episodes the three per-episode series
\* hold n entries each, appended one per training episode in episode order
\* and by nothing else; the success-rate series holds one entry per
\* evaluation block run, which is floor((n + 1) / 10) whenever no block is
\* under way.
C19_SeriesLengths ==
    [][/\ Len(reward_for_plot') = Completed'
       /\ Len(initial_state_value_for_plot') = Completed'
       /\ Len(avg_bellman_err_for_plot') = Completed'
       /\ (~InBlock' \/ pc' = "threshold") =>
             Len(SR_for_plot') = (Completed' + 1) \div 10
       /\ (InBlock' /\ pc' # "threshold") =>
             Len(SR_for_plot') = (Completed' + 1) \div 10 - 1
       /\ IF pc = "return" /\ caller = "train"
          THEN /\ reward_for_plot' = Append(reward_for_plot, ret.episode_gain)
               /\ avg_bellman_err_for_plot' =
                      Append(avg_bellman_err_for_plot, ret.mean_delta.val)
               /\ initial_state_value_for_plot' =
                      Append(initial_state_value_for_plot,
                             MaxOf({QValue(theta, <<-(EnvScale \div 2), 0>>, b) : b \in Actions}))
          ELSE /\ reward_for_plot' = reward_for_plot
               /\ avg_bellman_err_for_plot' = avg_bellman_err_for_plot
               /\ initial_state_value_for_plot' = initial_state_value_for_plot
       /\ SR_for_plot' # SR_for_plot =>
             (pc = "eval" /\ Len(test_gains) = 10 /\ Len(SR_for_plot') = Len(SR_for_plot) + 1)]_vars

\* the training loop between two episodes after the first block: 12 entries
\* in each per-episode series, one success rate
C19_Witness ==
    /\ pc = "loop" /\ Completed = 12
    /\ Len(reward_for_plot) = 12 /\ Len(initial_state_value_for_plot) = 12
    /\ Len(avg_bellman_err_for_plot) = 12
    /\ Len(SR_for_plot) = 1 /\ calls.eval = 10

====
